---- MODULE Spec2Model ----
(***************************************************************************)
(* Model of the alert engine of src/alert_service.py (AlertService) and of *)
(* the parts of src/dexscreener_client.py it relies on (TokenPair,         *)
(* get_all_megaeth_pairs).                                                 *)
(*                                                                         *)
(* Python's Optional[T] is modelled as a sequence of length <= 1:          *)
(*   None is <<>>, a present value v is <<v>>.                             *)
(* Floats are modelled by small integers; price_usd is a string, as in the *)
(* TokenPair dataclass, and Float models float() on the strings used here. *)
(* CancelledError is a BaseException (Python >= 3.8): neither "except      *)
(* Exception" of the service catches it.                                   *)
(***************************************************************************)
EXTENDS Integers, Sequences, FiniteSets, TLC

\* ---------------------------------------------------------------- bounds

\* Longest raw result list the upstream searches return in one cycle
\* (before get_all_megaeth_pairs removes repeated pair addresses).
MaxRaw == 2

\* Most stop() calls suspended in "await self._task" at the same time.
MaxStoppers == 1

\* ------------------------------------------------- configuration (config.*)

MIN_LIQUIDITY_USD == 2

NEW_PAIR_AGE_MINUTES == 2

PRICE_CHANGE_THRESHOLD == 2

MIN_VOLUME_USD == 1

\* ------------------------------------------------------------- Optional[T]

None == <<>>

Some(v) == <<v>>

Val(x) == x[1]

\* Python truthiness of an Optional[float]: None and 0.0 are falsy.
TruthyNum(x) == x # None /\ Val(x) # 0

\* Python truthiness of an Optional[str]: None and "" are falsy.
TruthyStr(x) == x # None /\ Val(x) # ""

\* float(s) on the strings of the model; "" and "x" raise ValueError.
FloatOk(s) == s \in {"0", "2"}

Float(s) == IF s = "0" THEN 0 ELSE 2

\* ------------------------------------------------------------- AlertType

NEW_PAIR == "new_pair"

PRICE_PUMP == "price_pump"

PRICE_DUMP == "price_dump"

HIGH_VOLUME == "high_volume"

\* TokenAlert(alert_type, pair, message, priority); the message text and the
\* timestamp play no part in the engine and are left out.
TokenAlert(alert_type, pair, priority) ==
    [alert_type |-> alert_type, pair |-> pair, priority |-> priority]

\* ------------------------------------------------------------- TokenPair

\* TokenPair.get_age_minutes, with datetime.now() passed as t.
get_age_minutes(pair, t) ==
    IF pair.pair_created_at # None
    THEN Some(t - Val(pair.pair_created_at))
    ELSE None

\* ---------------------------------------------------------- rule evaluators

\* Mutant of check_new_pair: a pair whose age equals the maximum is rejected.
check_new_pair_age_inclusive(pair, t) ==
    IF TruthyNum(pair.liquidity_usd) /\ Val(pair.liquidity_usd) < MIN_LIQUIDITY_USD
    THEN None
    ELSE LET age_minutes == get_age_minutes(pair, t)
         IN  IF age_minutes # None /\ Val(age_minutes) >= NEW_PAIR_AGE_MINUTES
             THEN None
             ELSE Some(TokenAlert(NEW_PAIR, pair, 2))

\* AlertService._check_new_pair
check_new_pair(pair, t) ==
    IF TruthyNum(pair.liquidity_usd) /\ Val(pair.liquidity_usd) < MIN_LIQUIDITY_USD
    THEN None
    ELSE LET age_minutes == get_age_minutes(pair, t)
         IN  IF age_minutes # None /\ Val(age_minutes) > NEW_PAIR_AGE_MINUTES
             THEN None
             ELSE Some(TokenAlert(NEW_PAIR, pair, 2))

\* Mutant of check_price_movement: the threshold itself does not alert.
check_price_movement_strict(pair) ==
    IF pair.price_change_1h = None
    THEN None
    ELSE LET threshold == PRICE_CHANGE_THRESHOLD
         IN  IF Val(pair.price_change_1h) > threshold
             THEN Some(TokenAlert(PRICE_PUMP, pair, 3))
             ELSE IF Val(pair.price_change_1h) < -threshold
                  THEN Some(TokenAlert(PRICE_DUMP, pair, 1))
                  ELSE None

\* AlertService._check_price_movement
check_price_movement(pair) ==
    IF pair.price_change_1h = None
    THEN None
    ELSE LET threshold == PRICE_CHANGE_THRESHOLD
         IN  IF Val(pair.price_change_1h) >= threshold
             THEN Some(TokenAlert(PRICE_PUMP, pair, 3))
             ELSE IF Val(pair.price_change_1h) <= -threshold
                  THEN Some(TokenAlert(PRICE_DUMP, pair, 1))
                  ELSE None

\* Mutant of check_volume_spike: a missing baseline counts as zero.
check_volume_spike_no_baseline(pair, previous_volumes) ==
    IF ~TruthyNum(pair.volume_24h) \/ Val(pair.volume_24h) < MIN_VOLUME_USD * 10
    THEN None
    ELSE LET previous_volume == previous_volumes[pair.pair_address]
         IN  IF previous_volume = None \/ Val(pair.volume_24h) >= Val(previous_volume) * 2
             THEN Some(TokenAlert(HIGH_VOLUME, pair, 2))
             ELSE None

\* AlertService._check_volume_spike; previous_volumes is _previous_volumes,
\* a function from addresses to Optional[float] (None: no entry).
check_volume_spike(pair, previous_volumes) ==
    IF ~TruthyNum(pair.volume_24h) \/ Val(pair.volume_24h) < MIN_VOLUME_USD * 10
    THEN None
    ELSE LET previous_volume == previous_volumes[pair.pair_address]
         IN  IF previous_volume = None
             THEN None
             ELSE IF Val(pair.volume_24h) >= Val(previous_volume) * 2
                  THEN Some(TokenAlert(HIGH_VOLUME, pair, 2))
                  ELSE None

\* ------------------------------------------------------------ input sets

\* Pair addresses the upstream reports.
Addrs == {"0xA", "0xB"}

\* Values of datetime.now() (minutes) read by get_age_minutes.  The wall
\* clock is an input: it is not monotonic.
Times == {1, 2, 3}

\* Subscription lists the store returns (get_all_subscriptions).
SubLists == {<<>>, <<"u1">>, <<"u1", "u2">>}

\* The snapshots (without address) the upstream reports for a pair in the
\* engine's runs:
\*   everything absent; everything zero; liquidity under the minimum with a
\*   pump at the threshold; liquidity at the minimum with a dump at the
\*   threshold and a price that is no number; a small volume; an empty price
\*   string with a large volume.
PairKinds ==
    { [price_usd |-> None, volume_24h |-> None, liquidity_usd |-> None,
       pair_created_at |-> None, price_change_1h |-> None],
      [price_usd |-> Some("0"), volume_24h |-> Some(0), liquidity_usd |-> Some(0),
       pair_created_at |-> Some(0), price_change_1h |-> Some(0)],
      [price_usd |-> Some("2"), volume_24h |-> Some(10), liquidity_usd |-> Some(1),
       pair_created_at |-> None, price_change_1h |-> Some(2)],
      [price_usd |-> Some("x"), volume_24h |-> Some(20), liquidity_usd |-> Some(2),
       pair_created_at |-> Some(0), price_change_1h |-> Some(-2)],
      [price_usd |-> Some("2"), volume_24h |-> Some(5), liquidity_usd |-> Some(3),
       pair_created_at |-> None, price_change_1h |-> Some(1)],
      [price_usd |-> Some(""), volume_24h |-> Some(20), liquidity_usd |-> None,
       pair_created_at |-> Some(0), price_change_1h |-> Some(-1)] }

WithAddress(kind, a) ==
    [pair_address |-> a, price_usd |-> kind.price_usd, volume_24h |-> kind.volume_24h,
     liquidity_usd |-> kind.liquidity_usd, pair_created_at |-> kind.pair_created_at,
     price_change_1h |-> kind.price_change_1h]

PairSnapshots == { WithAddress(k, a) : k \in PairKinds, a \in Addrs }

\* Raw result lists of the upstream searches, repeated addresses included.
RawResults == UNION { [1..n -> PairSnapshots] : n \in 0..MaxRaw }

\* DexScreenerClient.get_all_megaeth_pairs: a pair is appended unless a pair
\* with the same pair_address is already in all_pairs.
RECURSIVE AllPairs(_, _)
AllPairs(raw, all_pairs) ==
    IF raw = <<>>
    THEN all_pairs
    ELSE LET pair == Head(raw)
         IN  IF \E i \in 1..Len(all_pairs) : all_pairs[i].pair_address = pair.pair_address
             THEN AllPairs(Tail(raw), all_pairs)
             ELSE AllPairs(Tail(raw), Append(all_pairs, pair))

\* Mutant of get_all_megaeth_pairs: repeated pair addresses are kept.
get_all_megaeth_pairs_keep_repeated(raw) == raw

get_all_megaeth_pairs(raw) == AllPairs(raw, <<>>)

\* What the upstream does with one request: the request raises, or it is
\* answered with a status and, under "pairs", a list of pairs.
RequestOk(l) == [raised |-> FALSE, status |-> 200, json |-> l]

RequestRaises == [raised |-> TRUE, status |-> 0, json |-> <<>>]

RequestRefused == [raised |-> FALSE, status |-> 500, json |-> <<>>]

\* DexScreenerClient._make_request: the data of a 200 response; None after a
\* response with another status and after an exception, which is caught.
make_request(response) ==
    IF response.raised
    THEN None
    ELSE IF response.status = 200 THEN Some(response.json) ELSE None

\* DexScreenerClient.search_pairs: the pairs of the data, [] without data.
search_pairs(data) == IF data # None THEN Val(data) ELSE <<>>

\* get_all_megaeth_pairs, "for query in search_queries": what the four
\* searches ("WETH", "ETH", "USD", "MEGA") return, one after the other.
SearchResults(responses) ==
    search_pairs(make_request(responses[1])) \o search_pairs(make_request(responses[2]))
        \o search_pairs(make_request(responses[3])) \o search_pairs(make_request(responses[4]))

\* A request of the fetch failed: _make_request returned None for it.
SomeRequestFailed(responses) ==
    \E q \in 1..Len(responses) : make_request(responses[q]) = None

\* The answers to the four requests of one fetch whose searches find the raw
\* results of raws: the results come with the first and the third search;
\* every request is answered, or the second raises, or the fourth is refused,
\* or all four fail.
Responses(raws) ==
    UNION { LET first == IF raw = <<>> THEN <<>> ELSE <<Head(raw)>>
                rest == IF raw = <<>> THEN <<>> ELSE Tail(raw)
            IN  { <<RequestOk(first), RequestOk(<<>>), RequestOk(rest), RequestOk(<<>>)>>,
                  <<RequestOk(first), RequestRaises, RequestOk(rest), RequestOk(<<>>)>>,
                  <<RequestOk(first), RequestOk(<<>>), RequestOk(rest), RequestRefused>>,
                  <<RequestRaises, RequestRefused, RequestRaises, RequestRefused>> }
            : raw \in raws }

UpstreamResponses == Responses(RawResults)

\* The raw results of the cycles that run to their end: no pair, or one pair:
\* 0xA with every kind of snapshot, or 0xB with a small volume.
CycleRawResults ==
    {<<>>}
        \cup { <<WithAddress(k, "0xA")>> : k \in PairKinds }
        \cup { <<[pair_address |-> "0xB", price_usd |-> Some("2"), volume_24h |-> Some(5),
                  liquidity_usd |-> Some(3), pair_created_at |-> None,
                  price_change_1h |-> Some(1)]>> }

CycleResponses == Responses(CycleRawResults)

\* ------------------------------------------------------------------ state

VARIABLES
    alert_callback,      \* AlertService.alert_callback is set (a sink exists)
    running,             \* AlertService._running
    pc,                  \* where the coroutine of self._task is suspended
    cancelReq,           \* self._task.cancel() was called and not yet delivered
    waiters,             \* stop() calls suspended in "await self._task"
    old,                 \* former self._task objects that stop() calls still await
    seenDB,              \* the store's seen pair addresses (durable)
    previous_prices,     \* AlertService._previous_prices
    previous_volumes,    \* AlertService._previous_volumes
    pairs,               \* _check_for_alerts: pairs
    seen_addresses,      \* _check_for_alerts: seen_addresses
    subscriptions,       \* _check_for_alerts: subscriptions
    alerts,              \* _check_for_alerts: alerts
    idx,                 \* _check_for_alerts: position of "for pair in pairs"
    sendIdx,             \* _check_for_alerts: position of "for alert in alerts"
    cycleResult,         \* history: how the last cycle of self._task ended
    sinkCalls,           \* history: the calls of alert_callback in this cycle
    failedAt,            \* history: first call of this cycle in which the sink raised
    seen0,               \* history: seenDB when this cycle began
    pp0,                 \* history: _previous_prices when this cycle began
    pv0,                 \* history: _previous_volumes when this cycle began
    fetched,             \* history: the fetch of this cycle has returned
    requestFailed,       \* history (SpecCycles): a request of this cycle's fetch failed
    storeCalls,          \* history: the store calls this cycle has made
    now                  \* history: datetime.now() as the rule under test read it

lifecycle == <<running, cancelReq, waiters, old>>

engine == <<seenDB, previous_prices, previous_volumes>>

locals == <<pairs, seen_addresses, subscriptions, alerts, idx, sendIdx>>

history ==
    <<cycleResult, sinkCalls, failedAt, seen0, pp0, pv0, fetched, requestFailed, storeCalls>>

vars == <<alert_callback, pc, lifecycle, engine, locals, history, now>>

NoEntries == [a \in Addrs |-> None]

\* pc values at which a cycle of _check_for_alerts is suspended in an await.
CyclePcs == {"fetch", "load_seen", "load_subs", "mark", "send"}

\* pc values at which the coroutine of self._task exists and has not ended.
AlivePcs == CyclePcs \cup {"created", "sleep"}

\* AlertService.__init__; the store may already hold seen addresses.
Init ==
    /\ alert_callback \in BOOLEAN
    /\ running = FALSE
    /\ pc = "no_task"
    /\ cancelReq = FALSE
    /\ waiters = 0
    /\ old = <<>>
    /\ seenDB \in SUBSET Addrs
    /\ previous_prices = NoEntries
    /\ previous_volumes = NoEntries
    /\ pairs = <<>>
    /\ seen_addresses = {}
    /\ subscriptions = <<>>
    /\ alerts = <<>>
    /\ idx = 0
    /\ sendIdx = 0
    /\ cycleResult = "none"
    /\ sinkCalls = <<>>
    /\ failedAt = 0
    /\ seen0 = {}
    /\ pp0 = NoEntries
    /\ pv0 = NoEntries
    /\ fetched = FALSE
    /\ requestFailed = FALSE
    /\ storeCalls = 0
    /\ now = 0

\* The locals and the history of a coroutine that has not begun a cycle.
FreshCycle ==
    /\ pairs' = <<>>
    /\ seen_addresses' = {}
    /\ subscriptions' = <<>>
    /\ alerts' = <<>>
    /\ idx' = 0
    /\ sendIdx' = 0
    /\ sinkCalls' = <<>>
    /\ failedAt' = 0
    /\ fetched' = FALSE
    /\ requestFailed' = FALSE
    /\ storeCalls' = 0

\* ------------------------------------------------------- state updates

\* _check_for_alerts, "if pair.price_usd: try: ... float(...) except ValueError"
UpdatePrices(prices, pair) ==
    IF TruthyStr(pair.price_usd) /\ FloatOk(Val(pair.price_usd))
    THEN [prices EXCEPT ![pair.pair_address] = Some(Float(Val(pair.price_usd)))]
    ELSE prices

\* Mutant of UpdateVolumes: the volume is stored whatever it is.
UpdateVolumesAlways(volumes, pair) ==
    [volumes EXCEPT ![pair.pair_address] = pair.volume_24h]

\* _check_for_alerts, "if pair.volume_24h: self._previous_volumes[...] = ..."
UpdateVolumes(volumes, pair) ==
    IF TruthyNum(pair.volume_24h)
    THEN [volumes EXCEPT ![pair.pair_address] = pair.volume_24h]
    ELSE volumes

\* Mutant of IsNewCandidate: the seen addresses are not consulted.
IsNewCandidateAlways(pair, seen) == TRUE

\* Mutant of IsNewCandidate: an unseen pair whose price moved is handled as a
\* seen one.
IsNewCandidateUnlessMoving(pair, seen) ==
    pair.pair_address \notin seen /\ check_price_movement(pair) = None

\* _check_for_alerts, "if pair.pair_address not in seen_addresses"
IsNewCandidate(pair, seen) == pair.pair_address \notin seen

\* Mutant of SeenPairAlerts: the volume rule is skipped when the price rule
\* has returned an alert.
SeenPairAlertsFirstOnly(pair, volumes) ==
    LET price_alert == check_price_movement(pair)
        volume_alert == check_volume_spike(pair, volumes)
    IN  IF price_alert # None THEN price_alert ELSE volume_alert

\* Mutant of SeenPairAlerts: the volume rule runs after the volume of this
\* cycle was stored.
SeenPairAlertsAfterUpdate(pair, volumes) ==
    LET price_alert == check_price_movement(pair)
        volume_alert == check_volume_spike(pair, UpdateVolumes(volumes, pair))
    IN  price_alert \o volume_alert

\* _check_for_alerts, the else branch: both rules run, price alert first.
SeenPairAlerts(pair, volumes) ==
    LET price_alert == check_price_movement(pair)
        volume_alert == check_volume_spike(pair, volumes)
    IN  price_alert \o volume_alert

\* Mutant of MarksSeen: a candidate is marked seen whatever the rule returned.
MarksSeenAlways(alert) == TRUE

\* _check_for_alerts, "if alert": the alert is appended and the address is
\* marked seen only if _check_new_pair returned an alert.
MarksSeen(alert) == alert # None

\* _check_for_alerts, "for pair in pairs", run from position i until the
\* coroutine suspends in "await self.db.mark_token_seen" (susp) or the loop
\* ends.  Nothing else runs in between: the rules and the state updates
\* contain no await that suspends.
RECURSIVE RunPairs(_, _, _, _, _, _, _)
RunPairs(ps, i, al, prices, volumes, seen, t) ==
    IF i > Len(ps)
    THEN [susp |-> FALSE, idx |-> i, alerts |-> al, prices |-> prices, volumes |-> volumes]
    ELSE LET pair == ps[i]
         IN  IF IsNewCandidate(pair, seen)
             THEN LET alert == check_new_pair(pair, t)
                  IN  IF MarksSeen(alert)
                      THEN [susp |-> TRUE, idx |-> i, alerts |-> al \o alert,
                            prices |-> prices, volumes |-> volumes]
                      ELSE RunPairs(ps, i + 1, al, UpdatePrices(prices, pair),
                                    UpdateVolumes(volumes, pair), seen, t)
             ELSE RunPairs(ps, i + 1, al \o SeenPairAlerts(pair, volumes),
                           UpdatePrices(prices, pair), UpdateVolumes(volumes, pair),
                           seen, t)

\* Mutant of OnCycleException: the error ends the loop.
OnCycleExceptionEnds == "done"

\* _monitor_loop, "except Exception": the error is logged and the loop goes
\* on to "await asyncio.sleep(config.POLL_INTERVAL)".
OnCycleException == "sleep"

\* Mutant of SendAlertOutcome: the sink's error leaves _send_alert.
SendAlertOutcomeUncaught(raised) == IF raised THEN "propagates" ELSE "returns"

\* _send_alert, "except Exception": the sink's error is logged and
\* _send_alert returns.
SendAlertOutcome(raised) == "returns"

\* _send_alert, "if self.alert_callback": without a sink nothing is awaited.
SinkIsCalled(callback, al) == callback /\ al # <<>>

\* --------------------------------------------------------------- the store

\* DatabaseManager.get_seen_pair_addresses
get_seen_pair_addresses(db) == db

\* DatabaseManager.mark_token_seen
mark_token_seen(db, pair_address) == db \cup {pair_address}

\* ------------------------------------------------------- the monitor task

\* _monitor_loop, "while self._running": the next cycle begins, or the
\* coroutine ends.
LoopHead ==
    /\ ~cancelReq
    /\ IF running
       THEN /\ pc' = "fetch"
            /\ FreshCycle
            /\ cycleResult' = "in_progress"
            /\ seen0' = seenDB
            /\ pp0' = previous_prices
            /\ pv0' = previous_volumes
       ELSE /\ pc' = "done"
            /\ UNCHANGED <<locals, history>>
    /\ UNCHANGED <<alert_callback, lifecycle, engine, now>>

\* The event loop runs the task created by start() for the first time.  The
\* event loop runs its callbacks in the order they were scheduled: the
\* cancellation of a former task was scheduled by stop() before start()
\* scheduled this step.
TaskBegins ==
    /\ pc = "created"
    /\ \A i \in 1..Len(old) : old[i].waiters = 0
    /\ LoopHead

\* "await asyncio.sleep(config.POLL_INTERVAL)" returns.
SleepReturns ==
    /\ pc = "sleep"
    /\ LoopHead

\* Mutant of NoPairs: an empty snapshot does not end the cycle.
NoPairsNever(ps) == FALSE

\* _check_for_alerts, "if not pairs"
NoPairs(ps) == ps = <<>>

\* "pairs = await self.dex_client.get_all_megaeth_pairs()" returns;
\* "if not pairs: return".
FetchReturns ==
    /\ pc = "fetch"
    /\ ~cancelReq
    /\ \E responses \in UpstreamResponses :
         /\ pairs' = get_all_megaeth_pairs(SearchResults(responses))
         /\ IF NoPairs(pairs')
            THEN pc' = "sleep" /\ cycleResult' = "empty"
            ELSE pc' = "load_seen" /\ cycleResult' = cycleResult
    /\ fetched' = TRUE
    /\ UNCHANGED <<alert_callback, lifecycle, engine, seen_addresses, subscriptions,
                   alerts, idx, sendIdx, sinkCalls, failedAt, seen0, pp0, pv0,
                   requestFailed, storeCalls, now>>

\* An await of the cycle (the fetch, a store call) raises an Exception, which
\* leaves _check_for_alerts and reaches the handler of _monitor_loop.
AwaitRaises ==
    /\ pc \in {"fetch", "load_seen", "load_subs", "mark"}
    /\ ~cancelReq
    /\ pc' = OnCycleException
    /\ cycleResult' = "raised"
    /\ storeCalls' = IF pc = "fetch" THEN storeCalls ELSE storeCalls + 1
    /\ UNCHANGED <<alert_callback, lifecycle, engine, locals, sinkCalls, failedAt,
                   seen0, pp0, pv0, fetched, requestFailed, now>>

\* "seen_addresses = await self.db.get_seen_pair_addresses()" returns.
LoadSeenReturns ==
    /\ pc = "load_seen"
    /\ ~cancelReq
    /\ seen_addresses' = get_seen_pair_addresses(seenDB)
    /\ pc' = "load_subs"
    /\ storeCalls' = storeCalls + 1
    /\ UNCHANGED <<alert_callback, lifecycle, engine, pairs, subscriptions, alerts,
                   idx, sendIdx, cycleResult, sinkCalls, failedAt, seen0, pp0, pv0,
                   fetched, requestFailed, now>>

\* The coroutine after RunPairs returned r: suspended in mark_token_seen, or
\* in the first "await self._send_alert(alert, subscriptions)", or at the end
\* of the cycle.
Continue(r, subs) ==
    /\ alerts' = r.alerts
    /\ idx' = r.idx
    /\ previous_prices' = r.prices
    /\ previous_volumes' = r.volumes
    /\ IF r.susp
       THEN /\ pc' = "mark"
            /\ UNCHANGED <<sendIdx, sinkCalls, cycleResult>>
       ELSE IF SinkIsCalled(alert_callback, r.alerts)
            THEN /\ pc' = "send"
                 /\ sendIdx' = 1
                 /\ sinkCalls' = <<[alert |-> r.alerts[1], recipients |-> subs]>>
                 /\ UNCHANGED cycleResult
            ELSE /\ pc' = "sleep"
                 /\ sendIdx' = Len(r.alerts)
                 /\ cycleResult' = "complete"
                 /\ UNCHANGED sinkCalls

\* Mutant of NoSubscriptions: an empty subscription list does not end the
\* cycle.
NoSubscriptionsNever(subs) == FALSE

\* _check_for_alerts, "if not subscriptions"
NoSubscriptions(subs) == subs = <<>>

\* "subscriptions = await self.db.get_all_subscriptions()" returns;
\* "if not subscriptions: return"; otherwise the loop over the pairs begins.
LoadSubsReturns ==
    /\ pc = "load_subs"
    /\ ~cancelReq
    /\ \E subs \in SubLists, t \in Times :
         /\ subscriptions' = subs
         /\ IF NoSubscriptions(subs)
            THEN /\ pc' = "sleep"
                 /\ cycleResult' = "nosubs"
                 /\ UNCHANGED <<previous_prices, previous_volumes, alerts, idx,
                                sendIdx, sinkCalls>>
            ELSE Continue(RunPairs(pairs, 1, <<>>, previous_prices, previous_volumes,
                                   seen_addresses, t), subs)
    /\ storeCalls' = storeCalls + 1
    /\ UNCHANGED <<alert_callback, lifecycle, seenDB, pairs, seen_addresses,
                   failedAt, seen0, pp0, pv0, fetched, requestFailed, now>>

\* "await self.db.mark_token_seen(...)" returns; the state updates for that
\* pair follow and the loop goes on.
MarkReturns ==
    /\ pc = "mark"
    /\ ~cancelReq
    /\ seenDB' = mark_token_seen(seenDB, pairs[idx].pair_address)
    /\ \E t \in Times :
         Continue(RunPairs(pairs, idx + 1, alerts,
                           UpdatePrices(previous_prices, pairs[idx]),
                           UpdateVolumes(previous_volumes, pairs[idx]),
                           seen_addresses, t), subscriptions)
    /\ storeCalls' = storeCalls + 1
    /\ UNCHANGED <<alert_callback, lifecycle, pairs, seen_addresses, subscriptions,
                   failedAt, seen0, pp0, pv0, fetched, requestFailed, now>>

\* _send_alert is left (the sink returned, or raised and SendAlertOutcome
\* says the error is caught): the next alert is sent or the cycle ends.
\* If the error leaves _send_alert it reaches the handler of _monitor_loop.
AfterSink(raised) ==
    /\ failedAt' = IF raised /\ failedAt = 0 THEN sendIdx ELSE failedAt
    /\ IF SendAlertOutcome(raised) = "returns"
       THEN IF sendIdx < Len(alerts)
            THEN /\ sendIdx' = sendIdx + 1
                 /\ sinkCalls' = Append(sinkCalls, [alert |-> alerts[sendIdx + 1],
                                                    recipients |-> subscriptions])
                 /\ UNCHANGED <<pc, cycleResult>>
            ELSE /\ pc' = "sleep"
                 /\ cycleResult' = "complete"
                 /\ UNCHANGED <<sendIdx, sinkCalls>>
       ELSE /\ pc' = OnCycleException
            /\ cycleResult' = "raised"
            /\ UNCHANGED <<sendIdx, sinkCalls>>
    /\ UNCHANGED <<alert_callback, lifecycle, engine, pairs, seen_addresses,
                   subscriptions, alerts, idx, seen0, pp0, pv0, fetched, requestFailed, storeCalls, now>>

\* "await self.alert_callback(alert, subscriptions)" returns.
SinkReturns ==
    /\ pc = "send"
    /\ ~cancelReq
    /\ AfterSink(FALSE)

\* "await self.alert_callback(alert, subscriptions)" raises an Exception.
SinkRaises ==
    /\ pc = "send"
    /\ ~cancelReq
    /\ AfterSink(TRUE)

\* The cancellation requested by stop() reaches the coroutine at the await
\* it is suspended in: CancelledError passes both "except Exception" and ends
\* the task.  A store write that was under way may or may not have been done.
\* The task has ended: every "await self._task" of a stop() call returns.
CancelDelivered ==
    /\ cancelReq
    /\ pc \in AlivePcs
    /\ pc' = "done"
    /\ cancelReq' = FALSE
    /\ waiters' = 0
    /\ cycleResult' = IF pc \in CyclePcs THEN "cancelled" ELSE cycleResult
    /\ seenDB' \in IF pc = "mark"
                   THEN {seenDB, mark_token_seen(seenDB, pairs[idx].pair_address)}
                   ELSE {seenDB}
    /\ UNCHANGED <<alert_callback, running, old, previous_prices,
                   previous_volumes, locals, sinkCalls, failedAt, seen0, pp0, pv0,
                   fetched, requestFailed, storeCalls, now>>

\* ------------------------------------------------------- start() and stop()

RECURSIVE SumWaiters(_)
SumWaiters(tasks) ==
    IF tasks = <<>> THEN 0 ELSE Head(tasks).waiters + SumWaiters(Tail(tasks))

\* Mutant of StartIgnored: start() while _running creates a second task and
\* leaves the first one running.
StartIgnoredCreates ==
    /\ running
    /\ pc \in AlivePcs
    /\ ~cancelReq
    /\ pc' = "created"
    /\ old' = Append(old, [marking |-> None, waiters |-> 0, cycle |-> pc \in CyclePcs])
    /\ UNCHANGED <<alert_callback, running, cancelReq, waiters, engine, locals,
                   history, now>>

\* AlertService.start while _running: "return".
StartIgnored ==
    /\ running
    /\ UNCHANGED vars

\* Mutant of StartCreates: start() begins with empty maps of previous prices
\* and volumes.
StartCreatesResets ==
    /\ ~running
    /\ running' = TRUE
    /\ pc' = "created"
    /\ cancelReq' = FALSE
    /\ waiters' = 0
    /\ old' = IF waiters > 0
              THEN Append(old, [marking |-> IF pc = "mark"
                                            THEN Some(pairs[idx].pair_address)
                                            ELSE None,
                                waiters |-> waiters,
                                cycle |-> pc \in CyclePcs])
              ELSE old
    /\ FreshCycle
    /\ cycleResult' = "none"
    /\ seen0' = {}
    /\ pp0' = NoEntries
    /\ pv0' = NoEntries
    /\ previous_prices' = NoEntries
    /\ previous_volumes' = NoEntries
    /\ UNCHANGED <<alert_callback, seenDB, now>>

\* AlertService.start: a new task replaces self._task.  A former task that
\* stop() calls still await stays with the event loop.
StartCreates ==
    /\ ~running
    /\ running' = TRUE
    /\ pc' = "created"
    /\ cancelReq' = FALSE
    /\ waiters' = 0
    /\ old' = IF waiters > 0
              THEN Append(old, [marking |-> IF pc = "mark"
                                            THEN Some(pairs[idx].pair_address)
                                            ELSE None,
                                waiters |-> waiters,
                                cycle |-> pc \in CyclePcs])
              ELSE old
    /\ FreshCycle
    /\ cycleResult' = "none"
    /\ seen0' = {}
    /\ pp0' = NoEntries
    /\ pv0' = NoEntries
    /\ UNCHANGED <<alert_callback, engine, now>>

\* Mutant of StopCancels: stop() clears the flag and returns at once; the
\* task is neither cancelled nor awaited.
StopCancelsFlagOnly ==
    /\ pc \in AlivePcs
    /\ running' = FALSE
    /\ UNCHANGED <<alert_callback, pc, cancelReq, waiters, old, engine, locals,
                   history, now>>

\* AlertService.stop with a task that has not ended: the flag is cleared,
\* the task's cancellation is requested and stop() awaits the task.
StopCancels ==
    /\ pc \in AlivePcs
    /\ waiters + SumWaiters(old) < MaxStoppers
    /\ running' = FALSE
    /\ cancelReq' = TRUE
    /\ waiters' = waiters + 1
    /\ UNCHANGED <<alert_callback, pc, old, engine, locals, history, now>>

\* AlertService.stop without a task, or with a task that has ended: nothing
\* is awaited.
StopNoTask ==
    /\ pc \in {"no_task", "done"}
    /\ running' = FALSE
    /\ UNCHANGED <<alert_callback, pc, cancelReq, waiters, old, engine, locals,
                   history, now>>

RemoveAt(seq, i) == SubSeq(seq, 1, i - 1) \o SubSeq(seq, i + 1, Len(seq))

\* The cancellation reaches a former task, which ends; the stop() calls
\* awaiting it return.
OldCancelDelivered ==
    \E i \in 1..Len(old) :
        /\ old' = RemoveAt(old, i)
        /\ seenDB' \in IF old[i].marking # None
                       THEN {seenDB, mark_token_seen(seenDB, Val(old[i].marking))}
                       ELSE {seenDB}
        /\ UNCHANGED <<alert_callback, pc, running, cancelReq, waiters,
                       previous_prices, previous_volumes, locals, history, now>>

Next ==
    \/ TaskBegins
    \/ SleepReturns
    \/ FetchReturns
    \/ AwaitRaises
    \/ LoadSeenReturns
    \/ LoadSubsReturns
    \/ MarkReturns
    \/ SinkReturns
    \/ SinkRaises
    \/ CancelDelivered
    \/ StartIgnored
    \/ StartCreates
    \/ StopCancels
    \/ StopNoTask
    \/ OldCancelDelivered

Spec == Init /\ [][Next]_vars

\* A cycle that always ends goes on: the event loop runs a task that can run.
FairSpec == Spec /\ WF_vars(SleepReturns)

\* ------------------------------------------- the rules on their own inputs

\* Snapshots of one pair over every combination of the fields the rules read.
RulePairs ==
    { [pair_address |-> "0xA", price_usd |-> u, volume_24h |-> v,
       liquidity_usd |-> l, pair_created_at |-> c, price_change_1h |-> h] :
        u \in {None, Some("2")},
        v \in {None, Some(0), Some(9), Some(10), Some(20)},
        l \in {None} \cup {Some(n) : n \in 0..3},
        c \in {None} \cup {Some(n) : n \in 0..2},
        h \in {None} \cup {Some(n) : n \in -3..3} }

RulesInit ==
    /\ alert_callback = TRUE
    /\ running = FALSE
    /\ pc = "rule_input"
    /\ cancelReq = FALSE
    /\ waiters = 0
    /\ old = <<>>
    /\ seenDB = {}
    /\ previous_prices \in {[NoEntries EXCEPT !["0xA"] = b] : b \in {None, Some(0), Some(2)}}
    /\ previous_volumes \in {[NoEntries EXCEPT !["0xA"] = b] : b \in {None, Some(5), Some(10)}}
    /\ pairs \in {<<p>> : p \in RulePairs}
    /\ seen_addresses = {}
    /\ subscriptions = <<>>
    /\ alerts = <<>>
    /\ idx = 0
    /\ sendIdx = 0
    /\ cycleResult = "none"
    /\ sinkCalls = <<>>
    /\ failedAt = 0
    /\ seen0 = {}
    /\ pp0 = NoEntries
    /\ pv0 = NoEntries
    /\ fetched = FALSE
    /\ requestFailed = FALSE
    /\ storeCalls = 0
    /\ now \in Times

RuleFrame ==
    UNCHANGED <<alert_callback, lifecycle, engine, pairs, seen_addresses, subscriptions,
                idx, sendIdx, history, now>>

\* _check_new_pair is applied to the pair; alerts holds what it returned.
ApplyNewPairRule ==
    /\ pc = "rule_input"
    /\ pc' = "new_pair_rule"
    /\ alerts' = check_new_pair(pairs[1], now)
    /\ RuleFrame

\* Mutant of ApplyPriceRule: the movement is computed from the stored
\* previous price.
ApplyPriceRuleFromPrevious ==
    /\ pc = "rule_input"
    /\ pc' = "price_rule"
    /\ alerts' =
         LET pair == pairs[1]
             stored == previous_prices[pair.pair_address]
         IN  IF stored = None \/ ~TruthyStr(pair.price_usd)
             THEN check_price_movement(pair)
             ELSE IF Float(Val(pair.price_usd)) > Val(stored)
                  THEN Some(TokenAlert(PRICE_PUMP, pair, 3))
                  ELSE IF Float(Val(pair.price_usd)) < Val(stored)
                       THEN Some(TokenAlert(PRICE_DUMP, pair, 1))
                       ELSE None
    /\ RuleFrame

\* _check_price_movement is applied to the pair.
ApplyPriceRule ==
    /\ pc = "rule_input"
    /\ pc' = "price_rule"
    /\ alerts' = check_price_movement(pairs[1])
    /\ RuleFrame

\* _check_volume_spike is applied to the pair.
ApplyVolumeRule ==
    /\ pc = "rule_input"
    /\ pc' = "volume_rule"
    /\ alerts' = check_volume_spike(pairs[1], previous_volumes)
    /\ RuleFrame

RulesNext ==
    \/ ApplyNewPairRule
    \/ ApplyPriceRule
    \/ ApplyVolumeRule

SpecRules == RulesInit /\ [][RulesNext]_vars

\* --------------------------------------------- cycles that run to their end

\* _check_for_alerts, "for pair in pairs", to the end of the loop, every
\* "await self.db.mark_token_seen" returning: r is what RunPairs returned, db
\* the store's seen addresses.
RECURSIVE RunPairsToEnd(_, _, _, _, _)
RunPairsToEnd(r, ps, seen, t, db) ==
    IF ~r.susp
    THEN [alerts |-> r.alerts, idx |-> r.idx, prices |-> r.prices,
          volumes |-> r.volumes, db |-> db]
    ELSE RunPairsToEnd(RunPairs(ps, r.idx + 1, r.alerts,
                                UpdatePrices(r.prices, ps[r.idx]),
                                UpdateVolumes(r.volumes, ps[r.idx]), seen, t),
                       ps, seen, t, mark_token_seen(db, ps[r.idx].pair_address))

\* The service is running with a sink and neither start() nor stop() is
\* called; the store may already hold seen addresses.
CyclesInit ==
    /\ alert_callback = TRUE
    /\ running = TRUE
    /\ pc = "sleep"
    /\ cancelReq = FALSE
    /\ waiters = 0
    /\ old = <<>>
    /\ seenDB \in SUBSET Addrs
    /\ previous_prices = NoEntries
    /\ previous_volumes = NoEntries
    /\ pairs = <<>>
    /\ seen_addresses = {}
    /\ subscriptions = <<>>
    /\ alerts = <<>>
    /\ idx = 0
    /\ sendIdx = 0
    /\ cycleResult = "none"
    /\ sinkCalls = <<>>
    /\ failedAt = 0
    /\ seen0 = {}
    /\ pp0 = NoEntries
    /\ pv0 = NoEntries
    /\ fetched = FALSE
    /\ requestFailed = FALSE
    /\ storeCalls = 0
    /\ now = 0

\* One iteration of _monitor_loop from the sleep's return to the next sleep:
\* _check_for_alerts runs to its end, no await of it raises, the sink returns
\* for every alert.  The variables hold the cycle's locals at its end.
UninterruptedCycle ==
    /\ pc = "sleep"
    /\ running
    /\ \E responses \in CycleResponses, subs \in SubLists, t \in Times :
         LET ps == get_all_megaeth_pairs(SearchResults(responses))
             seen == get_seen_pair_addresses(seenDB)
             r == RunPairsToEnd(RunPairs(ps, 1, <<>>, previous_prices, previous_volumes,
                                         seen, t), ps, seen, t, seenDB)
         IN  /\ pairs' = ps
             /\ requestFailed' = SomeRequestFailed(responses)
             /\ IF NoPairs(ps)
                THEN /\ cycleResult' = "empty"
                     /\ seen_addresses' = {}
                     /\ subscriptions' = <<>>
                     /\ storeCalls' = 0
                     /\ alerts' = <<>>
                     /\ idx' = 0
                     /\ UNCHANGED engine
                ELSE IF NoSubscriptions(subs)
                     THEN /\ cycleResult' = "nosubs"
                          /\ seen_addresses' = seen
                          /\ subscriptions' = subs
                          /\ storeCalls' = 2
                          /\ alerts' = <<>>
                          /\ idx' = 0
                          /\ UNCHANGED engine
                     ELSE /\ cycleResult' = "complete"
                          /\ seen_addresses' = seen
                          /\ subscriptions' = subs
                          /\ storeCalls' = 2 + Cardinality(r.db \ seenDB)
                          /\ alerts' = r.alerts
                          /\ idx' = r.idx
                          /\ seenDB' = r.db
                          /\ previous_prices' = r.prices
                          /\ previous_volumes' = r.volumes
             /\ sendIdx' = Len(alerts')
             /\ sinkCalls' = IF SinkIsCalled(alert_callback, alerts')
                             THEN [j \in 1..Len(alerts') |->
                                      [alert |-> alerts'[j], recipients |-> subs]]
                             ELSE <<>>
    /\ fetched' = TRUE
    /\ seen0' = seenDB
    /\ pp0' = previous_prices
    /\ pv0' = previous_volumes
    /\ UNCHANGED <<alert_callback, pc, lifecycle, failedAt, now>>

CyclesNext == UninterruptedCycle

SpecCycles == CyclesInit /\ [][CyclesNext]_vars

\* ------------------------------------------------------------- the claims

\* The alerts of kind k collected for pair p in this cycle.
AlertsFor(k, p) == { j \in 1..Len(alerts) : alerts[j].alert_type = k /\ alerts[j].pair = p }

\* The pairs of this cycle on which the rules have run.
Evaluated == { i \in 1..Len(pairs) : i <= idx }

\* C1 (dedup): in a cycle that began with an address in the durable seen set,
\* no NewPair alert is collected for that address and none is handed to the
\* sink, however many cycles have run since the address was marked.
C1_Dedup ==
    /\ \A j \in 1..Len(alerts) :
         alerts[j].alert_type = NEW_PAIR => alerts[j].pair.pair_address \notin seen0
    /\ \A j \in 1..Len(sinkCalls) :
         sinkCalls[j].alert.alert_type = NEW_PAIR
            => sinkCalls[j].alert.pair.pair_address \notin seen0

\* C1 witness: a cycle of a run that has observed the pair before has
\* completed with an address that was seen when the cycle began, on a
\* snapshot that passes the New-Pair filters.
C1_Witness ==
    /\ cycleResult = "complete"
    /\ \E i \in 1..Len(pairs) :
         /\ pairs[i].pair_address \in seen0
         /\ pv0[pairs[i].pair_address] # None
         /\ \A t \in Times : check_new_pair(pairs[i], t) # None

\* C2 (stop takes effect only between cycles), as claimed: a cycle in flight
\* when stop() is called runs to its end; when the monitor task has ended,
\* its last cycle, if it got as far as evaluating pairs, has evaluated every
\* pair of the snapshot and handed every collected alert to the sink.
C2_StopBetweenCycles ==
    (pc = "done" /\ subscriptions # <<>>) =>
        /\ cycleResult # "cancelled"
        /\ idx = Len(pairs) + 1
        /\ alert_callback => Len(sinkCalls) = Len(alerts)

\* What the claim of C3 calls the entry that equals the snapshot's value.
ReflectsVolume(stored, pair) == stored = pair.volume_24h

ReflectsPrice(stored, pair) ==
    IF pair.price_usd = None
    THEN stored = None
    ELSE FloatOk(Val(pair.price_usd)) => stored = Some(Float(Val(pair.price_usd)))

\* C3 (state update regardless of alert outcome), as claimed: after a cycle
\* that completes, the entries of every pair of the snapshot equal the cycle's
\* price and volume, also when these are zero or absent.
C3_StateUpdateAlways ==
    cycleResult = "complete" =>
        \A i \in 1..Len(pairs) :
            /\ ReflectsVolume(previous_volumes[pairs[i].pair_address], pairs[i])
            /\ ReflectsPrice(previous_prices[pairs[i].pair_address], pairs[i])

\* C3 as amended: after a cycle that completes, for every pair of the
\* snapshot, the price entry is float(price_usd) if price_usd is a non-empty
\* string that float() accepts and is what it was before the cycle otherwise;
\* the volume entry is volume_24h if that is present and not zero and is what
\* it was before the cycle otherwise; whether or not an alert fired.
C3_StateUpdate ==
    cycleResult = "complete" =>
        \A i \in 1..Len(pairs) :
            LET p == pairs[i]
                a == p.pair_address
            IN  /\ previous_volumes[a] =
                     IF p.volume_24h # None /\ Val(p.volume_24h) # 0
                     THEN p.volume_24h ELSE pv0[a]
                /\ previous_prices[a] =
                     IF p.price_usd # None /\ Val(p.price_usd) \in {"0", "2"}
                     THEN Some(IF Val(p.price_usd) = "0" THEN 0 ELSE 2) ELSE pp0[a]

\* C3 witness: a completed cycle in which a pair without alert had its
\* volume replaced and, for a pair with a zero or absent volume, an older
\* entry was kept.
C3_Witness ==
    /\ cycleResult = "complete"
    /\ \E i \in 1..Len(pairs) :
         /\ ~TruthyNum(pairs[i].volume_24h)
         /\ pv0[pairs[i].pair_address] # None
    /\ \E i \in 1..Len(pairs) :
         /\ TruthyNum(pairs[i].volume_24h)
         /\ pv0[pairs[i].pair_address] # pairs[i].volume_24h
         /\ \A k \in {NEW_PAIR, PRICE_PUMP, PRICE_DUMP, HIGH_VOLUME} :
              AlertsFor(k, pairs[i]) = {}

\* C4 (liquidity gating), as claimed: no NewPair alert is collected, and so
\* no address is marked seen, for a pair whose liquidity is known and below
\* the minimum, zero included.
C4_LiquidityGate ==
    \A j \in 1..Len(alerts) :
        alerts[j].alert_type = NEW_PAIR =>
            ~ ( /\ alerts[j].pair.liquidity_usd # None
                /\ Val(alerts[j].pair.liquidity_usd) < MIN_LIQUIDITY_USD )

\* The liquidity filter as the specification words it.
LiquidityAllows(p) ==
    p.liquidity_usd = None \/ Val(p.liquidity_usd) >= MIN_LIQUIDITY_USD

\* C5 (age gating): the New-Pair rule returns nothing for a pair whose age is
\* known and above the maximum; a pair exactly as old as the maximum, or
\* without creation time, gets a NewPair alert of priority 2 when the
\* liquidity filter lets it pass.
C5_AgeGate ==
    pc = "new_pair_rule" =>
        LET p == pairs[1]
            c == p.pair_created_at
        IN  /\ (c # None /\ now - Val(c) > NEW_PAIR_AGE_MINUTES) => alerts = <<>>
            /\ (LiquidityAllows(p) /\ (c = None \/ now - Val(c) <= NEW_PAIR_AGE_MINUTES))
                  => alerts = <<[alert_type |-> NEW_PAIR, pair |-> p, priority |-> 2]>>

\* C5 witness: the rule has run on a pair exactly as old as the maximum and
\* returned an alert.
C5_Witness ==
    /\ pc = "new_pair_rule"
    /\ pairs[1].pair_created_at # None
    /\ now - Val(pairs[1].pair_created_at) = NEW_PAIR_AGE_MINUTES
    /\ alerts # <<>>

\* C6 (price threshold boundary): the Price-Movement rule returns PricePump
\* (priority 3) iff the 1h change is at least the threshold, PriceDump
\* (priority 1) iff it is at most minus the threshold, and nothing iff it is
\* strictly between or absent; never both.
C6_PriceThreshold ==
    pc = "price_rule" =>
        LET p == pairs[1]
            c == p.price_change_1h
            pump == <<[alert_type |-> PRICE_PUMP, pair |-> p, priority |-> 3]>>
            dump == <<[alert_type |-> PRICE_DUMP, pair |-> p, priority |-> 1]>>
        IN  /\ Len(alerts) <= 1
            /\ alerts = pump <=> (c # None /\ Val(c) >= PRICE_CHANGE_THRESHOLD)
            /\ alerts = dump <=> (c # None /\ Val(c) <= -PRICE_CHANGE_THRESHOLD)
            /\ alerts = <<>> <=> ( \/ c = None
                                   \/ /\ -PRICE_CHANGE_THRESHOLD < Val(c)
                                      /\ Val(c) < PRICE_CHANGE_THRESHOLD )

\* C6 witness: the rule has run on a change of exactly minus the threshold
\* and returned PriceDump.
C6_Witness ==
    /\ pc = "price_rule"
    /\ pairs[1].price_change_1h = Some(-PRICE_CHANGE_THRESHOLD)
    /\ Len(alerts) = 1
    /\ alerts[1].alert_type = PRICE_DUMP

\* C7 (volume spike requires a baseline): for every pair the rules have run
\* on in this cycle, exactly one HighVolume alert (priority 2) is collected if
\* the pair was in the seen set the cycle loaded, its volume is present and at
\* least ten times the floor, a volume was recorded for it before the cycle
\* and the volume is at least twice the recorded one; otherwise none is.
C7_VolumeBaseline ==
    /\ \A i \in Evaluated :
         LET p == pairs[i]
             v == p.volume_24h
             b == pv0[p.pair_address]
             fires == /\ p.pair_address \in seen_addresses
                      /\ v # None
                      /\ Val(v) >= 10 * MIN_VOLUME_USD
                      /\ b # None
                      /\ Val(v) >= 2 * Val(b)
         IN  /\ Cardinality(AlertsFor(HIGH_VOLUME, p)) = IF fires THEN 1 ELSE 0
             /\ \A j \in AlertsFor(HIGH_VOLUME, p) : alerts[j].priority = 2
    /\ \A j \in 1..Len(alerts) :
         alerts[j].alert_type = HIGH_VOLUME
            => \E i \in Evaluated : pairs[i] = alerts[j].pair

\* C7 witness: a HighVolume alert was collected for a volume of exactly twice
\* the recorded one.
C7_Witness ==
    \E j \in 1..Len(alerts) :
        /\ alerts[j].alert_type = HIGH_VOLUME
        /\ pv0[alerts[j].pair.pair_address] # None
        /\ Val(alerts[j].pair.volume_24h) = 2 * Val(pv0[alerts[j].pair.pair_address])

\* C8 (failure isolation of the loop): a cycle that ended with an exception
\* is followed by a next cycle, unless stop() is called first.
C8_FailureIsolation ==
    (cycleResult = "raised") ~> (pc = "fetch" \/ ~running)

\* C8 witness: a cycle has ended with an exception raised by a store call and
\* the loop is in its sleep.
C8_Witness ==
    /\ cycleResult = "raised"
    /\ pc = "sleep"
    /\ storeCalls > 0
    /\ running

\* C9 (dispatch failure isolation): once the sink has raised on alert i, the
\* error has not left _send_alert (the cycle did not end with an exception),
\* the next alert, if there is one, was handed to the sink, and a cycle that
\* completes has handed every collected alert to the sink, in order.
C9_DispatchIsolation ==
    failedAt > 0 =>
        /\ cycleResult # "raised"
        /\ failedAt < Len(alerts) => Len(sinkCalls) > failedAt
        /\ cycleResult = "complete" =>
             /\ Len(sinkCalls) = Len(alerts)
             /\ \A j \in 1..Len(alerts) : sinkCalls[j].alert = alerts[j]

\* C9 witness: the sink raised on the first of several alerts and the cycle
\* completed.
C9_Witness ==
    /\ failedAt = 1
    /\ Len(alerts) > 1
    /\ cycleResult = "complete"

\* C10 (empty snapshot is a no-op): a cycle whose fetch returned no pairs has
\* changed neither the previous prices, nor the previous volumes, nor the seen
\* set, has made no store call and has called the sink for nothing.
C10_EmptyNoOp ==
    (fetched /\ pairs = <<>>) =>
        /\ previous_prices = pp0
        /\ previous_volumes = pv0
        /\ seenDB = seen0
        /\ storeCalls = 0
        /\ sinkCalls = <<>>
        /\ cycleResult = "empty"

\* C10 witness: a cycle with recorded state and seen addresses has fetched an
\* empty snapshot.
C10_Witness ==
    /\ fetched
    /\ pairs = <<>>
    /\ pv0 # NoEntries
    /\ pp0 # NoEntries
    /\ seen0 # {}

\* C11 (no subscribers is a no-op): a cycle that fetched a snapshot with
\* pairs and loaded an empty subscription list has ended there: it has changed
\* neither the previous prices, nor the previous volumes, nor the seen set,
\* has made no store call besides the two loads (no mark_token_seen), has
\* collected no alert and has called the sink for nothing.
C11_NoSubscribersNoOp ==
    ( /\ fetched
      /\ pairs # <<>>
      /\ storeCalls >= 2
      /\ subscriptions = <<>>
      /\ cycleResult # "raised" ) =>
        /\ cycleResult = "nosubs"
        /\ previous_prices = pp0
        /\ previous_volumes = pv0
        /\ seenDB = seen0
        /\ storeCalls = 2
        /\ alerts = <<>>
        /\ sinkCalls = <<>>

\* C11 witness: a cycle without subscriptions has ended on a snapshot that
\* holds an unseen pair passing the New-Pair filters at any time, with a
\* volume and a price that an evaluating cycle would have recorded.
C11_Witness ==
    /\ cycleResult = "nosubs"
    /\ pc = "sleep"
    /\ \E i \in 1..Len(pairs) :
         /\ pairs[i].pair_address \notin seen0
         /\ \A t \in Times : check_new_pair(pairs[i], t) # None
         /\ TruthyNum(pairs[i].volume_24h)
         /\ pv0[pairs[i].pair_address] # pairs[i].volume_24h

\* C12 (rejected candidates stay eligible): for every pair of this cycle the
\* rules have run on whose address was not in the loaded seen set: at most one
\* NewPair alert is collected for it; if none is (the New-Pair rule rejected
\* it at the time it read), the address is not in the seen set, so that the
\* next cycle finds it a candidate again; if it passes the filters at every
\* time the rule can read, a NewPair alert is collected, in an earlier and in
\* a later cycle alike; and once mark_token_seen has returned for it the
\* address is in the seen set.
C12_RejectedStayEligible ==
    \A i \in Evaluated :
        LET p == pairs[i]
            a == p.pair_address
            new == AlertsFor(NEW_PAIR, p)
        IN  a \notin seen_addresses =>
              /\ Cardinality(new) <= 1
              /\ new = {} => ( /\ a \notin seenDB
                               /\ \E t \in Times : check_new_pair(p, t) = None )
              /\ new # {} => \E t \in Times : check_new_pair(p, t) # None
              /\ (\A t \in Times : check_new_pair(p, t) # None) => new # {}
              /\ (new # {} /\ i < idx) => a \in seenDB

\* C12 witness: an address that an earlier cycle of this run rejected (its
\* volume was recorded while it stayed out of the seen set) was a candidate
\* again in this cycle, passed, got its NewPair alert and is marked seen.
C12_Witness ==
    /\ cycleResult = "complete"
    /\ \E i \in 1..Len(pairs) :
         /\ pairs[i].pair_address \notin seen0
         /\ pv0[pairs[i].pair_address] # None
         /\ AlertsFor(NEW_PAIR, pairs[i]) # {}
         /\ pairs[i].pair_address \in seenDB

\* The tasks of the service that are inside a cycle of _check_for_alerts:
\* self._task and the former tasks that have not ended.
CyclesInProgress ==
    (IF pc \in CyclePcs THEN 1 ELSE 0)
        + Cardinality({ i \in 1..Len(old) : old[i].cycle })

\* C13 (cycles never overlap): under every interleaving of start(), stop()
\* and the tasks, at most one task is inside a cycle; and a cycle begins, with
\* its fetch, only in a task that was just created or whose former cycle has
\* ended and whose sleep has returned.
C13_NoOverlap ==
    /\ [](CyclesInProgress <= 1)
    /\ [][ (pc' \in CyclePcs /\ pc \notin CyclePcs) =>
             /\ pc \in {"created", "sleep"}
             /\ pc' = "fetch"
             /\ cycleResult \in {"none", "complete", "empty", "nosubs", "raised"}
             /\ \A i \in 1..Len(old) : ~old[i].cycle ]_vars

\* C13 witness: start() was called again while a stop() was still awaiting a
\* task that is inside a cycle; the new task exists and has not begun.
C13_Witness ==
    /\ pc = "created"
    /\ running
    /\ \E i \in 1..Len(old) : old[i].cycle

\* C14 (complete fan-out), as claimed: every call of the sink hands over an
\* alert collected in this cycle, each at most once and in order, together
\* with the subscription list the cycle loaded; and once a cycle with a sink
\* has finished its rule evaluation and is no longer dispatching, every
\* collected alert has been handed to the sink.
C14_CompleteFanOut ==
    /\ Len(sinkCalls) <= Len(alerts)
    /\ \A j \in 1..Len(sinkCalls) :
         sinkCalls[j] = [alert |-> alerts[j], recipients |-> subscriptions]
    /\ ( /\ alert_callback
         /\ subscriptions # <<>>
         /\ idx = Len(pairs) + 1
         /\ pc # "send" ) => Len(sinkCalls) = Len(alerts)

\* C15 (fetch failure skips the cycle), as claimed: a cycle in whose fetch a
\* request raised or was answered with a status other than 200 changes
\* neither the previous prices, nor the previous volumes, nor the seen set,
\* and calls the sink for nothing.
C15_FetchFailureSkips ==
    (fetched /\ requestFailed) =>
        /\ previous_prices = pp0
        /\ previous_volumes = pv0
        /\ seenDB = seen0
        /\ sinkCalls = <<>>

\* The calls of the sink in this cycle that carry the NewPair alert of address a.
NewPairCalls(a) ==
    { j \in 1..Len(sinkCalls) : /\ sinkCalls[j].alert.alert_type = NEW_PAIR
                                /\ sinkCalls[j].alert.pair.pair_address = a }

\* C16 (marked seen means alerted), as claimed, for the cycles that no stop
\* request ends: when a cycle of a service with a sink has ended, by
\* completing or by an exception, the NewPair alert of every address the
\* cycle has marked seen was handed to the sink in that cycle exactly once.
C16_MarkedIsDelivered ==
    (alert_callback /\ cycleResult \in {"complete", "raised"}) =>
        \A a \in seenDB \ seen0 : Cardinality(NewPairCalls(a)) = 1

\* C17 (the spike baseline is the preceding cycle's volume), as claimed: a
\* HighVolume alert of a cycle was decided against the volume that the cycle
\* immediately before observed for that pair: the pair was in that cycle's
\* snapshot and its volume there is the baseline the rule read.
C17_PrecedingCycleVolume ==
    [][ \A j \in 1..Len(alerts') :
            alerts'[j].alert_type = HIGH_VOLUME =>
                \E i \in 1..Len(pairs) :
                    /\ pairs[i].pair_address = alerts'[j].pair.pair_address
                    /\ pairs[i].volume_24h = previous_volumes[pairs[i].pair_address] ]_vars

\* C17 as amended: the rule of cycle k reads the volume last recorded before
\* cycle k, never the volume of cycle k: a HighVolume alert is collected for a
\* pair of an evaluating cycle iff the pair was seen, its volume is at least
\* ten times the floor and at least twice the entry the map held when the
\* cycle began; and the entry a cycle leaves is the pair's volume if the cycle
\* evaluated the pair with a present, non-zero volume and the older entry
\* otherwise (pair not in the snapshot, zero or absent volume, cycle skipped
\* as empty or without subscribers), so that the baseline is the volume of
\* the latest cycle that recorded one, which may be older than cycle k-1.
C17_LastRecordedVolume ==
    [][ /\ \A i \in 1..Len(pairs') :
             LET p == pairs'[i]
                 v == p.volume_24h
                 b == previous_volumes[p.pair_address]
                 fires == /\ cycleResult' = "complete"
                          /\ p.pair_address \in seenDB
                          /\ v # None
                          /\ Val(v) >= 10 * MIN_VOLUME_USD
                          /\ b # None
                          /\ Val(v) >= 2 * Val(b)
             IN  fires <=> \E j \in 1..Len(alerts') :
                              /\ alerts'[j].alert_type = HIGH_VOLUME
                              /\ alerts'[j].pair = p
        /\ \A a \in Addrs :
             LET recorded == { i \in 1..Len(pairs') :
                                 /\ cycleResult' = "complete"
                                 /\ pairs'[i].pair_address = a
                                 /\ pairs'[i].volume_24h # None
                                 /\ Val(pairs'[i].volume_24h) # 0 }
             IN  previous_volumes'[a] =
                     IF recorded # {}
                     THEN pairs'[CHOOSE i \in recorded : TRUE].volume_24h
                     ELSE previous_volumes[a] ]_vars

\* C17 witness: a cycle has collected a HighVolume alert against an entry
\* recorded before it began and has replaced the entry by its own volume.
C17_Witness ==
    /\ cycleResult = "complete"
    /\ requestFailed = FALSE
    /\ \E j \in 1..Len(alerts) :
         LET a == alerts[j].pair.pair_address
         IN  /\ alerts[j].alert_type = HIGH_VOLUME
             /\ pv0[a] # None
             /\ Val(alerts[j].pair.volume_24h) > 2 * Val(pv0[a])
             /\ previous_volumes[a] = alerts[j].pair.volume_24h

\* The alerts of the rules that read the previous state.
ReadsPreviousState(alert) == alert.alert_type # NEW_PAIR

\* The first n pairs of ps evaluated against one and the same map of
\* volumes, no entry being written in between.
RECURSIVE EvaluateThenUpdate(_, _, _, _)
EvaluateThenUpdate(ps, n, seen, volumes) ==
    IF n = 0
    THEN <<>>
    ELSE EvaluateThenUpdate(ps, n - 1, seen, volumes)
            \o (IF ps[n].pair_address \in seen
                THEN check_price_movement(ps[n]) \o check_volume_spike(ps[n], volumes)
                ELSE <<>>)

\* The entries of the first n pairs of ps written into a map, in order.
RECURSIVE WriteVolumes(_, _, _)
WriteVolumes(volumes, ps, n) ==
    IF n = 0
    THEN volumes
    ELSE LET before == WriteVolumes(volumes, ps, n - 1)
             v == ps[n].volume_24h
         IN  IF v # None /\ Val(v) # 0
             THEN [before EXCEPT ![ps[n].pair_address] = v]
             ELSE before

\* C18 (read before write within a cycle): at every point of a cycle, the
\* price and volume alerts collected so far are those that evaluating the
\* pairs reached so far against the previous volumes as they were when the
\* cycle began yields, and the map holds what writing the entries of the
\* pairs passed so far, after that evaluation, yields: no write of the cycle
\* has changed the outcome of a rule of the cycle.
C18_ReadBeforeWrite ==
    cycleResult # "none" =>
        LET reached == IF idx > Len(pairs) THEN Len(pairs) ELSE idx
            passed == IF idx = 0 THEN 0 ELSE idx - 1
        IN  /\ SelectSeq(alerts, ReadsPreviousState)
                  = EvaluateThenUpdate(pairs, reached, seen_addresses, pv0)
            /\ previous_volumes = WriteVolumes(pv0, pairs, passed)

\* C18 witness: a cycle has written a new volume for its first pair and has
\* then evaluated a second, seen pair whose volume rule fired.
C18_Witness ==
    /\ cycleResult = "complete"
    /\ Len(pairs) = 2
    /\ previous_volumes[pairs[1].pair_address] # pv0[pairs[1].pair_address]
    /\ pairs[2].pair_address \in seen_addresses
    /\ AlertsFor(HIGH_VOLUME, pairs[2]) # {}

\* The alerts collected in this cycle for pair p, in order.
AlertsOf(p) == SelectSeq(alerts, LAMBDA x : x.pair = p)

\* C19 (rule applicability is decided by the loaded seen set): for every pair
\* the rules have run on in this cycle: if its address was not in the seen
\* set the cycle loaded, at most one alert is collected for it and it is a
\* NewPair alert, also in the cycle in which the address gets marked seen; if
\* its address was in it, the alerts collected for it are what the
\* Price-Movement rule returns followed by what the Volume-Spike rule returns
\* on the volumes as they were when the cycle began (none, one or both),
\* never a NewPair alert.  No alert is collected for any other pair.
C19_RuleApplicability ==
    /\ \A i \in Evaluated :
         LET p == pairs[i]
         IN  IF p.pair_address \notin seen_addresses
             THEN /\ Len(AlertsOf(p)) <= 1
                  /\ \A j \in 1..Len(AlertsOf(p)) :
                       AlertsOf(p)[j] = [alert_type |-> NEW_PAIR, pair |-> p, priority |-> 2]
             ELSE /\ AlertsOf(p) = check_price_movement(p) \o check_volume_spike(p, pv0)
                  /\ \A j \in 1..Len(AlertsOf(p)) : AlertsOf(p)[j].alert_type # NEW_PAIR
    /\ \A j \in 1..Len(alerts) : \E i \in Evaluated : pairs[i] = alerts[j].pair

\* C19 witness: in one cycle an unseen pair at the price threshold and with a
\* large volume got its NewPair alert only and was marked seen, and a seen
\* pair got both a price alert and a HighVolume alert.
C19_Witness ==
    /\ cycleResult = "complete"
    /\ \E i \in 1..Len(pairs) :
         /\ pairs[i].pair_address \notin seen_addresses
         /\ pairs[i].pair_address \in seenDB
         /\ check_price_movement(pairs[i]) # None
         /\ Len(AlertsOf(pairs[i])) = 1
    /\ \E i \in 1..Len(pairs) :
         /\ pairs[i].pair_address \in seen_addresses
         /\ Len(AlertsOf(pairs[i])) = 2

\* What the 1h change alone decides.
KindForChange(c) ==
    IF c = None
    THEN "none"
    ELSE IF Val(c) >= PRICE_CHANGE_THRESHOLD
         THEN PRICE_PUMP
         ELSE IF Val(c) <= -PRICE_CHANGE_THRESHOLD THEN PRICE_DUMP ELSE "none"

\* C20 (the Price-Movement rule is independent of the previous state): over
\* all engine states, which differ in the stored previous price and volume of
\* the pair, and all snapshots, which differ in price and volume, what the
\* rule returns is decided by the snapshot's 1h change and the threshold
\* alone: two states with the same change get the same kind of alert or none.
C20_PriceRuleIgnoresPreviousState ==
    pc = "price_rule" =>
        /\ Len(alerts) <= 1
        /\ (IF alerts = <<>> THEN "none" ELSE alerts[1].alert_type)
              = KindForChange(pairs[1].price_change_1h)

\* C20 witness: the rule has run on a snapshot whose price differs from the
\* stored previous price and whose 1h change is under the threshold, and has
\* returned nothing.
C20_Witness ==
    /\ pc = "price_rule"
    /\ previous_prices["0xA"] = Some(0)
    /\ previous_volumes["0xA"] # None
    /\ pairs[1].price_usd = Some("2")
    /\ pairs[1].price_change_1h = Some(1)
    /\ alerts = <<>>

\* The addresses with an entry in a map of previous values.
Recorded(map) == { a \in Addrs : map[a] # None }

\* C21 (entries are never evicted): no step of the service, be it start(),
\* stop(), a step of a cycle that is empty, without subscribers, failing or
\* cancelled, or any other, removes an address from the previous prices or
\* from the previous volumes: the sets of recorded addresses only grow.
C21_NeverEvicted ==
    [][ /\ Recorded(previous_prices) \subseteq Recorded(previous_prices')
        /\ Recorded(previous_volumes) \subseteq Recorded(previous_volumes') ]_vars

\* C21 witness: cycles recorded both addresses in both maps, stop() ended
\* the task and start() has created a new one that has not run yet: both maps
\* still hold both addresses.
C21_Witness ==
    /\ pc = "created"
    /\ running
    /\ Recorded(previous_prices) = Addrs
    /\ Recorded(previous_volumes) = Addrs

\* The service is stopped and every stop() call has returned: no call awaits
\* the task it cancelled.
Stopped == ~running /\ waiters = 0 /\ old = <<>>

\* C22 (a stopped service stays quiet; start() is idempotent while running):
\* once every stop() has returned the monitor task has ended and no
\* cancellation is pending, and until start() is called no cycle begins, no
\* alert reaches the sink, no address is marked seen and the previous prices
\* and volumes do not change.  While the service is running no step creates a
\* monitor task, and the number of former tasks does not grow.
C22_StoppedStaysQuiet ==
    /\ [](Stopped => (pc \in {"no_task", "done"} /\ ~cancelReq))
    /\ [][Stopped => (running' \/ (/\ pc' = pc
                                   /\ cycleResult' = cycleResult
                                   /\ UNCHANGED <<engine, sinkCalls, storeCalls>>))]_vars
    /\ [][running => ((pc' = "created" => pc = "created")
                      /\ Len(old') <= Len(old))]_vars

\* C22 witness: stop() has returned after cancelling a cycle that had
\* collected alerts and had not delivered them all.
C22_Witness ==
    /\ Stopped
    /\ pc = "done"
    /\ cycleResult = "cancelled"
    /\ alerts # <<>>
    /\ sendIdx <= Len(alerts)

\* A price or volume alert is collected only for an address that was in the
\* durable seen set when the cycle began, and a NewPair alert only for one
\* that was not: no address has both in one cycle.
SeenBeforeMoving ==
    \A j \in 1..Len(alerts) :
        LET a == alerts[j].pair.pair_address
        IN  IF alerts[j].alert_type = NEW_PAIR
            THEN a \notin seen_addresses
            ELSE a \in seen_addresses /\ a \in seen0

\* The durable seen set grows only by the address of a pair for which the
\* running cycle, or the cycle of a former task that was cancelled in its
\* store call, has collected a NewPair alert.
SeenGrowsByNewPair ==
    seenDB' # seenDB =>
        \E a \in Addrs :
            /\ seenDB' = seenDB \cup {a}
            /\ \/ /\ pc = "mark"
                  /\ pairs[idx].pair_address = a
                  /\ AlertsFor(NEW_PAIR, pairs[idx]) # {}
               \/ \E i \in 1..Len(old) : old[i].marking = Some(a)

\* The candidates of this cycle that the New-Pair rule has rejected.
Rejected ==
    { i \in Evaluated : /\ pairs[i].pair_address \notin seen_addresses
                        /\ AlertsFor(NEW_PAIR, pairs[i]) = {} }

\* C23 (no alert without a NewPair first), as claimed: a price or volume
\* alert is collected only for an address that was in the seen set when the
\* cycle began, the seen set grows only by addresses with a NewPair alert, a
\* candidate that the New-Pair rule rejects gets no alert of any kind and
\* stays out of the seen set, and its entries of previous price and volume
\* equal the price and volume of the cycle.
C23_BaselineEveryCycle ==
    /\ [](/\ SeenBeforeMoving
          /\ \A i \in Rejected :
               LET p == pairs[i]
                   a == p.pair_address
               IN  /\ AlertsOf(p) = <<>>
                   /\ a \notin seenDB
                   /\ ReflectsVolume(previous_volumes[a], p)
                   /\ ReflectsPrice(previous_prices[a], p))
    /\ [][SeenGrowsByNewPair]_vars

\* C23 as amended: as above, but the entries of a rejected candidate are those
\* of the guarded update: the price entry is float(price_usd) if price_usd is
\* a non-empty string that float() accepts and the volume entry is volume_24h
\* if that is present and not zero; otherwise the entry is what it was when
\* the cycle began.
C23_NoAlertWithoutNewPair ==
    /\ [](/\ SeenBeforeMoving
          /\ \A i \in Rejected :
               LET p == pairs[i]
                   a == p.pair_address
               IN  /\ AlertsOf(p) = <<>>
                   /\ a \notin seenDB
                   /\ previous_volumes[a] =
                        IF p.volume_24h # None /\ Val(p.volume_24h) # 0
                        THEN p.volume_24h ELSE pv0[a]
                   /\ previous_prices[a] =
                        IF p.price_usd # None /\ Val(p.price_usd) \in {"0", "2"}
                        THEN Some(IF Val(p.price_usd) = "0" THEN 0 ELSE 2)
                        ELSE pp0[a])
    /\ [][SeenGrowsByNewPair]_vars

\* C23 witness: a cycle has completed in which a candidate that an earlier
\* cycle had already rejected was rejected again, got no alert and had its
\* volume entry replaced, while the other pair, seen when the cycle began,
\* got a price or volume alert.
C23_Witness ==
    /\ cycleResult = "complete"
    /\ \E i \in Rejected :
         LET a == pairs[i].pair_address
         IN  /\ pv0[a] # None
             /\ previous_volumes[a] # pv0[a]
             /\ AlertsOf(pairs[i]) = <<>>
             /\ a \notin seenDB
    /\ \E j \in 1..Len(alerts) :
         /\ alerts[j].alert_type # NEW_PAIR
         /\ alerts[j].pair.pair_address \in seen0

====
